---- MODULE Spec2Model ----
(***************************************************************************)
(* Model of the port scanner in src/src/main.rs: argument validation, the  *)
(* fan-out of one probe task per port, the mpsc channel, the collector     *)
(* loop, and the report written to standard output.                        *)
(***************************************************************************)
EXTENDS Integers, Sequences, FiniteSets, TLC

\* Max possible port number (const MAX: u16).
MAX == 65535

\* Width of u16 arithmetic.
U16Mod == 65536

\* Bounds of the model: command-line values are drawn from 0..LowMax and
\* (MAX - HighBack)..MAX, and only ranges of at most MaxSpan ports are run.
LowMax == 4
HighBack == 2
MaxSpan == 3

\* The runtime has between one and MaxWorkers worker threads.
MaxWorkers == 2

InputValues == (0..LowMax) \cup ((MAX - HighBack)..MAX)

\* An option given on the command line is <<v>>, an absent one is <<>>.
OptionValues == {<<>>} \cup {<<v>> : v \in InputValues}

\* Ports on which something may be listening on the target: the lowest
\* ports and the two highest ones.
ListenCandidates == (1..(LowMax - 1)) \cup {MAX - 1, MAX}

\* The targets scanned: one that listens on low ports only, or on high
\* ports only.
ListenSets == (SUBSET (1..(LowMax - 1))) \cup (SUBSET {MAX - 1, MAX})

VARIABLES
    argv,       \* the command line: [start, end], each <<>> or <<v>>
    listening,  \* ports of the target that accept a connection
    opts,       \* <<>> before parsing, <<Arguments>> after
    mainpc,     \* position of main
    i,          \* cursor of the range iterator in main's spawn loop
    mainTx,     \* main still holds its Sender
    senders,    \* number of live Sender handles of the channel
    rxAlive,    \* the Receiver has not been dropped
    chan,       \* values sent and not yet received (FIFO)
    tasks,      \* the spawned probe tasks, in spawn order
    out,        \* the Vec<u16> main accumulates
    k,          \* cursor of the final print loop (1-based)
    pushed,     \* history: the values in the order out.push received them
    stdoutBuf,  \* bytes held in the line buffer of stdout
    stdout,     \* bytes that reached file descriptor 1
    workers,    \* number of worker threads of the runtime
    polling     \* the tasks a worker thread is running at the moment

vars == <<argv, listening, opts, mainpc, i, mainTx, senders, rxAlive, chan,
          tasks, out, k, pushed, stdoutBuf, stdout, workers, polling>>

----------------------------------------------------------------------------
\* Argument validation

\* Variant: zero passes the guard.
start_port_guard_AllowsZero(input) == input >= 0

start_port_guard(input) == input > 0

\* Variant: 65535 passes the guard, as its message says.
end_port_guard_AllowsMax(input) == input <= MAX

end_port_guard(input) == input < MAX

\* A field with guard(g, ..) followed by fallback(fb): the guard is applied to
\* a value that was given, the fallback replaces a value that was not.
ParseStartPort(raw) ==
    IF raw = <<>> THEN [ok |-> TRUE, val |-> 1]
    ELSE IF start_port_guard(raw[1]) THEN [ok |-> TRUE, val |-> raw[1]]
    ELSE [ok |-> FALSE, val |-> raw[1]]

ParseEndPort(raw) ==
    IF raw = <<>> THEN [ok |-> TRUE, val |-> MAX]
    ELSE IF end_port_guard(raw[1]) THEN [ok |-> TRUE, val |-> raw[1]]
    ELSE [ok |-> FALSE, val |-> raw[1]]

\* arguments().run(): the parsed struct, or a failure that ends the process.
arguments_run(a) ==
    LET s == ParseStartPort(a.start)
        e == ParseEndPort(a.end)
    IN  [ok |-> s.ok /\ e.ok, start_port |-> s.val, end_port |-> e.val]

\* Number of ports of the half-open range start..end.
RangeLen(s, e) == IF s < e THEN e - s ELSE 0

----------------------------------------------------------------------------
\* Standard output: text is a sequence of one-character strings.

NL == "\n"

Digits == <<"0", "1", "2", "3", "4", "5", "6", "7", "8", "9">>

\* Display of a u16 ("{}"): decimal, no sign, no leading zeros.
RECURSIVE ToDecimal(_)
ToDecimal(n) ==
    IF n < 10 THEN <<Digits[n + 1]>>
    ELSE ToDecimal(n \div 10) \o <<Digits[(n % 10) + 1]>>

\* Variant: the marker is written twice.
MarkerText_Twice == <<".", ".", NL>>

\* The text println!(".") writes: the literal followed by a newline.
MarkerText == <<".", NL>>

\* The text println!("") writes.
SeparatorText == <<NL>>

\* The text println!("{} is open", v) writes.
OpenText(v) ==
    ToDecimal(v) \o <<" ", "i", "s", " ", "o", "p", "e", "n", NL>>

\* Index of the last newline of s, 0 when there is none.
LastNewline(s) ==
    LET idx == {j \in 1..Len(s) : s[j] = NL}
    IN  IF idx = {} THEN 0 ELSE CHOOSE j \in idx : \A m \in idx : m <= j

\* A write to the line-buffered stdout (one print call holds the lock for
\* the whole text): everything up to the last newline reaches the
\* descriptor, the rest stays in the buffer.
LineWrite(buf, fd, data) ==
    LET all == buf \o data
        n   == LastNewline(all)
    IN  [buf |-> SubSeq(all, n + 1, Len(all)),
         fd  |-> fd \o SubSeq(all, 1, n)]

\* io::stdout().flush(): the buffer reaches the descriptor.
FlushStdout(buf, fd) == [buf |-> <<>>, fd |-> fd \o buf]

\* out.sort(): ascending order of the same elements.
RECURSIVE Insert(_, _)
Insert(x, s) ==
    IF s = <<>> THEN <<x>>
    ELSE IF x <= Head(s) THEN <<x>> \o s
    ELSE <<Head(s)>> \o Insert(x, Tail(s))

\* Variant: the vector is left in the order received.
sort_Unsorted(s) == s

RECURSIVE sort(_)
sort(s) == IF s = <<>> THEN <<>> ELSE Insert(Head(s), sort(Tail(s)))

----------------------------------------------------------------------------
\* Initial state: the process has started, main has not run yet.

Accepted(a) == arguments_run(a).ok

\* The configurations run: every rejected one, and the accepted ones whose
\* range holds at most MaxSpan ports.
Configurations ==
    {a \in [start : OptionValues, end : OptionValues] :
        Accepted(a) =>
            RangeLen(arguments_run(a).start_port,
                     arguments_run(a).end_port) <= MaxSpan}

Init ==
    /\ argv \in Configurations
    /\ listening \in ListenSets
    /\ opts = <<>>
    /\ mainpc = "args"
    /\ i = 0
    /\ mainTx = FALSE
    /\ senders = 0
    /\ rxAlive = FALSE
    /\ chan = <<>>
    /\ tasks = <<>>
    /\ out = <<>>
    /\ k = 0
    /\ pushed = <<>>
    /\ stdoutBuf = <<>>
    /\ stdout = <<>>
    /\ workers \in 1..MaxWorkers
    /\ polling = {}

----------------------------------------------------------------------------
\* main

\* let opts: Arguments = arguments().run();
ParseArgs ==
    /\ mainpc = "args"
    /\ LET r == arguments_run(argv)
       IN  IF r.ok
           THEN /\ opts' = <<[start_port |-> r.start_port,
                              end_port |-> r.end_port]>>
                /\ mainpc' = "channel"
           ELSE /\ opts' = opts
                /\ mainpc' = "rejected"
    /\ UNCHANGED <<workers, polling, pushed, argv, listening, i, mainTx, senders, rxAlive, chan, tasks,
                   out, k, stdoutBuf, stdout>>

\* let (tx, rx) = channel(); and the range iterator of the for loop.
CreateChannel ==
    /\ mainpc = "channel"
    /\ mainTx' = TRUE
    /\ senders' = 1
    /\ rxAlive' = TRUE
    /\ chan' = <<>>
    /\ i' = opts[1].start_port
    /\ mainpc' = "for_spawn"
    /\ UNCHANGED <<workers, polling, pushed, argv, listening, opts, tasks, out, k, stdoutBuf, stdout>>

\* A freshly spawned task running scan(tx, port, addr).
NewTask(port) ==
    [port |-> port, pc |-> "spawned", tx |-> TRUE,
     conn |-> "none", wrote |-> 0, sent |-> 0]

\* Variant: the cursor advances by two, every other port is skipped.
SpawnProbe_SkipsPort ==
    /\ mainpc = "for_spawn"
    /\ i < opts[1].end_port
    /\ tasks' = Append(tasks, NewTask(i))
    /\ senders' = senders + 1
    /\ i' = (i + 2) % U16Mod
    /\ UNCHANGED <<workers, polling, pushed, argv, listening, opts, mainpc, mainTx, rxAlive,
                   chan, out, k, stdoutBuf, stdout>>

\* Variant: the range is closed, start..=end (capped to the model's size).
SpawnProbe_Inclusive ==
    /\ mainpc = "for_spawn"
    /\ i <= opts[1].end_port
    /\ Len(tasks) <= MaxSpan
    /\ tasks' = Append(tasks, NewTask(i))
    /\ senders' = senders + 1
    /\ i' = i + 1
    /\ UNCHANGED <<workers, polling, pushed, argv, listening, opts, mainpc, mainTx, rxAlive,
                   chan, out, k, stdoutBuf, stdout>>

\* Variant: the next probe is spawned only when the earlier ones are over.
SpawnProbe_AwaitsEarlier ==
    /\ mainpc = "for_spawn"
    /\ i < opts[1].end_port
    /\ \A t \in DOMAIN tasks : tasks[t].pc = "done"
    /\ tasks' = Append(tasks, NewTask(i))
    /\ senders' = senders + 1
    /\ i' = (i + 1) % U16Mod
    /\ UNCHANGED <<workers, polling, pushed, argv, listening, opts, mainpc,
                   mainTx, rxAlive, chan, out, k, stdoutBuf, stdout>>

\* One iteration of the spawn loop: clone the sender, spawn the task.
SpawnProbe ==
    /\ mainpc = "for_spawn"
    /\ i < opts[1].end_port
    /\ tasks' = Append(tasks, NewTask(i))
    /\ senders' = senders + 1
    /\ i' = (i + 1) % U16Mod
    /\ UNCHANGED <<workers, polling, pushed, argv, listening, opts, mainpc, mainTx, rxAlive, chan, out,
                   k, stdoutBuf, stdout>>

\* Variant: the separator is printed before the collector loop.
SpawnDone_PrintsSeparator ==
    /\ mainpc = "for_spawn"
    /\ ~(i < opts[1].end_port)
    /\ out' = <<>>
    /\ LET w == LineWrite(stdoutBuf, stdout, SeparatorText)
       IN  /\ stdoutBuf' = w.buf
           /\ stdout' = w.fd
    /\ mainpc' = "drop_tx"
    /\ UNCHANGED <<workers, polling, pushed, argv, listening, opts, i, mainTx, senders,
                   rxAlive, chan, tasks, k>>

\* The range is used up: let mut out = vec![];
SpawnDone ==
    /\ mainpc = "for_spawn"
    /\ ~(i < opts[1].end_port)
    /\ out' = <<>>
    /\ mainpc' = "drop_tx"
    /\ UNCHANGED <<workers, polling, pushed, argv, listening, opts, i, mainTx, senders, rxAlive, chan,
                   tasks, k, stdoutBuf, stdout>>

\* Variant: main keeps its sender while it collects.
DropTx_KeepsSender ==
    /\ mainpc = "drop_tx"
    /\ mainpc' = "for_recv"
    /\ UNCHANGED <<workers, polling, pushed, argv, listening, opts, i, mainTx, senders,
                   rxAlive, chan, tasks, out, k, stdoutBuf, stdout>>

\* drop(tx);
DropTx ==
    /\ mainpc = "drop_tx"
    /\ mainTx' = FALSE
    /\ senders' = senders - 1
    /\ mainpc' = "for_recv"
    /\ UNCHANGED <<workers, polling, pushed, argv, listening, opts, i, rxAlive, chan, tasks, out, k,
                   stdoutBuf, stdout>>

\* for p in rx { out.push(p); } -- a value is available.
Recv ==
    /\ mainpc = "for_recv"
    /\ chan # <<>>
    /\ out' = Append(out, Head(chan))
    /\ chan' = Tail(chan)
    /\ pushed' = Append(pushed, Head(chan))
    /\ UNCHANGED <<workers, polling, argv, listening, opts, mainpc, i, mainTx, senders, rxAlive,
                   tasks, k, stdoutBuf, stdout>>

\* Variant: the loop ends as soon as nothing is buffered (a try_recv loop).
RecvExhausted_IgnoresSenders ==
    /\ mainpc = "for_recv"
    /\ chan = <<>>
    /\ rxAlive' = FALSE
    /\ mainpc' = "println_sep"
    /\ UNCHANGED <<workers, polling, pushed, argv, listening, opts, i, mainTx, senders, chan,
                   tasks, out, k, stdoutBuf, stdout>>

\* The iterator ends: nothing buffered and every Sender dropped.  The
\* receiver, moved into the loop, is dropped with it.
RecvExhausted ==
    /\ mainpc = "for_recv"
    /\ chan = <<>>
    /\ senders = 0
    /\ rxAlive' = FALSE
    /\ mainpc' = "println_sep"
    /\ UNCHANGED <<workers, polling, pushed, argv, listening, opts, i, mainTx, senders, chan, tasks,
                   out, k, stdoutBuf, stdout>>

\* println!("");
PrintSeparator ==
    /\ mainpc = "println_sep"
    /\ LET w == LineWrite(stdoutBuf, stdout, SeparatorText)
       IN  /\ stdoutBuf' = w.buf
           /\ stdout' = w.fd
    /\ mainpc' = "sort"
    /\ UNCHANGED <<workers, polling, pushed, argv, listening, opts, i, mainTx, senders, rxAlive, chan,
                   tasks, out, k>>

\* out.sort(); and the iterator of the print loop.
SortOut ==
    /\ mainpc = "sort"
    /\ out' = sort(out)
    /\ k' = 1
    /\ mainpc' = "for_print"
    /\ UNCHANGED <<workers, polling, pushed, argv, listening, opts, i, mainTx, senders, rxAlive, chan,
                   tasks, stdoutBuf, stdout>>

\* println!("{} is open", v);
PrintOpen ==
    /\ mainpc = "for_print"
    /\ k <= Len(out)
    /\ LET w == LineWrite(stdoutBuf, stdout, OpenText(out[k]))
       IN  /\ stdoutBuf' = w.buf
           /\ stdout' = w.fd
    /\ k' = k + 1
    /\ UNCHANGED <<workers, polling, pushed, argv, listening, opts, mainpc, i, mainTx, senders, rxAlive,
                   chan, tasks, out>>

\* The print loop is over and main returns; stdout is flushed at exit.
MainReturn ==
    /\ mainpc = "for_print"
    /\ k > Len(out)
    /\ LET f == FlushStdout(stdoutBuf, stdout)
       IN  /\ stdoutBuf' = f.buf
           /\ stdout' = f.fd
    /\ mainpc' = "done"
    /\ UNCHANGED <<workers, polling, pushed, argv, listening, opts, i, mainTx, senders, rxAlive, chan,
                   tasks, out, k>>

----------------------------------------------------------------------------
\* scan, run by task t

\* Task t exists once main has spawned it.
TaskIds == 1..MaxSpan

Spawned(t) == t \in DOMAIN tasks

\* Variant: main runs on a worker thread of the pool and keeps it until it
\* returns (it never awaits).
FreeWorker_MainOnWorker ==
    Cardinality(polling) + (IF mainpc \in {"done", "rejected"} THEN 0 ELSE 1)
        < workers

\* A worker thread is idle and can poll a task that is ready.  Under
\* #[tokio::main] the body of main runs on the thread that called it, not
\* on a worker; a task keeps its worker from the poll that resumes it until
\* it next awaits or finishes.
FreeWorker == Cardinality(polling) < workers

\* TcpStream::connect(..) is polled for the first time: the attempt starts
\* and the task awaits it, giving its worker back.
BeginConnect(t) ==
    /\ Spawned(t)
    /\ tasks[t].pc = "spawned"
    /\ FreeWorker
    /\ tasks' = [tasks EXCEPT ![t].pc = "connecting", ![t].conn = "pending"]
    /\ UNCHANGED <<workers, polling, pushed, argv, listening, opts, mainpc, i, mainTx, senders, rxAlive,
                   chan, out, k, stdoutBuf, stdout>>

\* The attempt has resolved to Ok(_) and a worker resumes the task.
ConnectOk(t) ==
    /\ Spawned(t)
    /\ tasks[t].pc = "connecting"
    /\ tasks[t].port \in listening
    /\ FreeWorker
    /\ polling' = polling \cup {t}
    /\ tasks' = [tasks EXCEPT ![t].pc = "println", ![t].conn = "ok"]
    /\ UNCHANGED <<workers, pushed, argv, listening, opts, mainpc, i, mainTx, senders, rxAlive,
                   chan, out, k, stdoutBuf, stdout>>

\* Variant: a failed attempt takes the success arm.
ConnectErr_TakesOkArm(t) ==
    /\ Spawned(t)
    /\ tasks[t].pc = "connecting"
    /\ tasks[t].port \notin listening
    /\ FreeWorker
    /\ polling' = polling \cup {t}
    /\ tasks' = [tasks EXCEPT ![t].pc = "println", ![t].conn = "err"]
    /\ UNCHANGED <<workers, pushed, argv, listening, opts, mainpc, i, mainTx, senders,
                   rxAlive, chan, out, k, stdoutBuf, stdout>>

\* The attempt has resolved to Err(_) => {} and a worker resumes the task.
ConnectErr(t) ==
    /\ Spawned(t)
    /\ tasks[t].pc = "connecting"
    /\ tasks[t].port \notin listening
    /\ FreeWorker
    /\ polling' = polling \cup {t}
    /\ tasks' = [tasks EXCEPT ![t].pc = "exit", ![t].conn = "err"]
    /\ UNCHANGED <<workers, pushed, argv, listening, opts, mainpc, i, mainTx, senders, rxAlive,
                   chan, out, k, stdoutBuf, stdout>>

\* println!(".");
ProbePrintln(t) ==
    /\ Spawned(t)
    /\ tasks[t].pc = "println"
    /\ LET w == LineWrite(stdoutBuf, stdout, MarkerText)
       IN  /\ stdoutBuf' = w.buf
           /\ stdout' = w.fd
    /\ tasks' = [tasks EXCEPT ![t].pc = "flush",
                              ![t].wrote = tasks[t].wrote + 1]
    /\ UNCHANGED <<workers, polling, pushed, argv, listening, opts, mainpc, i, mainTx, senders, rxAlive,
                   chan, out, k>>

\* io::stdout().flush().unwrap();
ProbeFlush(t) ==
    /\ Spawned(t)
    /\ tasks[t].pc = "flush"
    /\ LET f == FlushStdout(stdoutBuf, stdout)
       IN  /\ stdoutBuf' = f.buf
           /\ stdout' = f.fd
    /\ tasks' = [tasks EXCEPT ![t].pc = "send"]
    /\ UNCHANGED <<workers, polling, pushed, argv, listening, opts, mainpc, i, mainTx, senders, rxAlive,
                   chan, out, k>>

\* Variant: the value is sent twice.
ProbeSend_Twice(t) ==
    /\ Spawned(t)
    /\ tasks[t].pc = "send"
    /\ IF rxAlive
       THEN /\ chan' = chan \o <<tasks[t].port, tasks[t].port>>
            /\ tasks' = [tasks EXCEPT ![t].pc = "exit",
                                      ![t].sent = tasks[t].sent + 2]
            /\ senders' = senders
            /\ polling' = polling
       ELSE /\ chan' = chan
            /\ tasks' = [tasks EXCEPT ![t].pc = "panicked", ![t].tx = FALSE]
            /\ senders' = senders - 1
            /\ polling' = polling \ {t}
    /\ UNCHANGED <<workers, pushed, argv, listening, opts, mainpc, i, mainTx,
                   rxAlive, out, k, stdoutBuf, stdout>>

\* Variant: the result of send is ignored (let _ = tx.send(port)).
ProbeSend_IgnoresResult(t) ==
    /\ Spawned(t)
    /\ tasks[t].pc = "send"
    /\ IF rxAlive
       THEN /\ chan' = Append(chan, tasks[t].port)
            /\ tasks' = [tasks EXCEPT ![t].pc = "exit",
                                      ![t].sent = tasks[t].sent + 1]
       ELSE /\ chan' = chan
            /\ tasks' = [tasks EXCEPT ![t].pc = "exit"]
    /\ UNCHANGED <<workers, polling, senders, pushed, argv, listening, opts,
                   mainpc, i, mainTx, rxAlive, out, k, stdoutBuf, stdout>>

\* tx.send(port).unwrap(): the value is queued while the receiver lives;
\* otherwise send returns Err, unwrap panics and the unwinding drops tx.
ProbeSend(t) ==
    /\ Spawned(t)
    /\ tasks[t].pc = "send"
    /\ IF rxAlive
       THEN /\ chan' = Append(chan, tasks[t].port)
            /\ tasks' = [tasks EXCEPT ![t].pc = "exit",
                                      ![t].sent = tasks[t].sent + 1]
            /\ senders' = senders
            /\ polling' = polling
       ELSE /\ chan' = chan
            /\ tasks' = [tasks EXCEPT ![t].pc = "panicked", ![t].tx = FALSE]
            /\ senders' = senders - 1
            /\ polling' = polling \ {t}
    /\ UNCHANGED <<workers, pushed, argv, listening, opts, mainpc, i, mainTx, rxAlive, out, k,
                   stdoutBuf, stdout>>

\* Variant: the task ends but its Sender is never released (leaked).
ProbeExit_LeaksSender(t) ==
    /\ Spawned(t)
    /\ tasks[t].pc = "exit"
    /\ tasks' = [tasks EXCEPT ![t].pc = "done"]
    /\ polling' = polling \ {t}
    /\ UNCHANGED <<workers, senders, pushed, argv, listening, opts, mainpc, i,
                   mainTx, rxAlive, chan, out, k, stdoutBuf, stdout>>

\* scan returns: its tx goes out of scope and the task completes.
ProbeExit(t) ==
    /\ Spawned(t)
    /\ tasks[t].pc = "exit"
    /\ tasks' = [tasks EXCEPT ![t].pc = "done", ![t].tx = FALSE]
    /\ senders' = senders - 1
    /\ polling' = polling \ {t}
    /\ UNCHANGED <<workers, pushed, argv, listening, opts, mainpc, i, mainTx, rxAlive, chan,
                   out, k, stdoutBuf, stdout>>

----------------------------------------------------------------------------
MainStep ==
    \/ ParseArgs
    \/ CreateChannel
    \/ SpawnProbe
    \/ SpawnDone
    \/ DropTx
    \/ Recv
    \/ RecvExhausted
    \/ PrintSeparator
    \/ SortOut
    \/ PrintOpen
    \/ MainReturn

ProbeStep ==
    \E t \in TaskIds :
        \/ BeginConnect(t)
        \/ ConnectOk(t)
        \/ ConnectErr(t)
        \/ ProbePrintln(t)
        \/ ProbeFlush(t)
        \/ ProbeSend(t)
        \/ ProbeExit(t)

Next ==
    \/ ParseArgs
    \/ CreateChannel
    \/ SpawnProbe
    \/ SpawnDone
    \/ DropTx
    \/ Recv
    \/ RecvExhausted
    \/ PrintSeparator
    \/ SortOut
    \/ PrintOpen
    \/ MainReturn
    \/ \E t \in TaskIds : BeginConnect(t)
    \/ \E t \in TaskIds : ConnectOk(t)
    \/ \E t \in TaskIds : ConnectErr(t)
    \/ \E t \in TaskIds : ProbePrintln(t)
    \/ \E t \in TaskIds : ProbeFlush(t)
    \/ \E t \in TaskIds : ProbeSend(t)
    \/ \E t \in TaskIds : ProbeExit(t)

Spec == Init /\ [][Next]_vars

\* The runtime keeps running main and every spawned task, and every
\* connection attempt resolves.
FairSpec == Spec /\ WF_vars(MainStep) /\ WF_vars(ProbeStep)

----------------------------------------------------------------------------
\* scan called on its own, the way tests::test_scan_successful_connection
\* calls it: one channel, one spawned task that owns the only Sender, and a
\* caller that awaits the task.  The arguments of scan are drawn from their
\* domains: the port is listening (the test binds it first) or not, and the
\* receiver of tx is alive (the test keeps _rx) or has been dropped.

ScanInit ==
    /\ argv = [start |-> <<>>, end |-> <<>>]
    /\ listening \in ListenSets
    /\ opts = <<>>
    /\ mainpc = "test_spawn"
    /\ i \in ListenCandidates
    /\ mainTx = TRUE
    /\ senders = 1
    /\ rxAlive \in BOOLEAN
    /\ chan = <<>>
    /\ tasks = <<>>
    /\ out = <<>>
    /\ k = 0
    /\ pushed = <<>>
    /\ stdoutBuf = <<>>
    /\ stdout = <<>>
    /\ workers = 1
    /\ polling = {}

\* task::spawn(scan(tx, addr.port(), ..)): tx moves into the task.
TestSpawn ==
    /\ mainpc = "test_spawn"
    /\ tasks' = <<NewTask(i)>>
    /\ mainTx' = FALSE
    /\ mainpc' = "test_await"
    /\ UNCHANGED <<argv, listening, opts, i, senders, rxAlive, chan, out, k,
                   pushed, stdoutBuf, stdout, workers, polling>>

\* .await on the JoinHandle and assert!(result.is_ok()): the result is Ok
\* when the task returned, Err when it panicked.
TestJoin ==
    /\ mainpc = "test_await"
    /\ tasks[1].pc \in {"done", "panicked"}
    /\ mainpc' = IF tasks[1].pc = "done" THEN "test_passed" ELSE "test_failed"
    /\ UNCHANGED <<argv, listening, opts, i, mainTx, senders, rxAlive, chan,
                   tasks, out, k, pushed, stdoutBuf, stdout, workers, polling>>

ScanNext ==
    \/ TestSpawn
    \/ TestJoin
    \/ \E t \in TaskIds : BeginConnect(t)
    \/ \E t \in TaskIds : ConnectOk(t)
    \/ \E t \in TaskIds : ConnectErr(t)
    \/ \E t \in TaskIds : ProbePrintln(t)
    \/ \E t \in TaskIds : ProbeFlush(t)
    \/ \E t \in TaskIds : ProbeSend(t)
    \/ \E t \in TaskIds : ProbeExit(t)

ScanSpec == ScanInit /\ [][ScanNext]_vars

----------------------------------------------------------------------------
\* Reading standard output back

\* The lines of s: the text between newlines, an unterminated tail included.
RECURSIVE SplitLines(_)
SplitLines(s) ==
    LET idx == {j \in 1..Len(s) : s[j] = NL}
    IN  IF s = <<>> THEN <<>>
        ELSE IF idx = {} THEN <<s>>
        ELSE LET n == CHOOSE j \in idx : \A m \in idx : j <= m
             IN  <<SubSeq(s, 1, n - 1)>> \o SplitLines(SubSeq(s, n + 1, Len(s)))

IsDigit(c) == \E d \in 1..10 : Digits[d] = c

DigitValue(c) == (CHOOSE d \in 1..10 : Digits[d] = c) - 1

RECURSIVE ParseDecimal(_)
ParseDecimal(ds) ==
    IF Len(ds) = 1 THEN DigitValue(ds[1])
    ELSE 10 * ParseDecimal(SubSeq(ds, 1, Len(ds) - 1)) + DigitValue(ds[Len(ds)])

OpenSuffix == <<" ", "i", "s", " ", "o", "p", "e", "n">>

\* A line of the form "<digits> is open".
IsOpenLine(l) ==
    /\ Len(l) > Len(OpenSuffix)
    /\ SubSeq(l, Len(l) - Len(OpenSuffix) + 1, Len(l)) = OpenSuffix
    /\ \A j \in 1..(Len(l) - Len(OpenSuffix)) : IsDigit(l[j])
    /\ (Len(l) - Len(OpenSuffix) > 1 => l[1] # "0")

LinePort(l) == ParseDecimal(SubSeq(l, 1, Len(l) - Len(OpenSuffix)))

StdoutLines == SplitLines(stdout)

\* The ports of the "<port> is open" lines, in the order printed.
ReportedSeq ==
    LET ls == SelectSeq(StdoutLines, IsOpenLine)
    IN  [j \in 1..Len(ls) |-> LinePort(ls[j])]

ReportedPorts == {ReportedSeq[j] : j \in 1..Len(ReportedSeq)}

\* Number of "." characters written so far, buffered ones included.
MarkerCount ==
    Cardinality({j \in 1..Len(stdout \o stdoutBuf) :
                    (stdout \o stdoutBuf)[j] = "."})

InRange(p) ==
    /\ opts # <<>>
    /\ opts[1].start_port <= p
    /\ p < opts[1].end_port

\* Ports whose connection attempt succeeded.
ConnectedPorts == {tasks[t].port : t \in {u \in DOMAIN tasks : tasks[u].conn = "ok"}}

\* Number of occurrences of v in s.
Occurrences(v, s) == Cardinality({j \in 1..Len(s) : s[j] = v})

Reporting == mainpc \in {"println_sep", "sort", "for_print", "done"}

----------------------------------------------------------------------------
\* C1: when main has finished, the ports printed as "<port> is open" are
\* exactly the ports of [start, end) whose connection attempt succeeded,
\* which are the listening ports of the range; at no time is a port printed
\* that is outside the range or has nothing listening.
C1_ReportIsExactlyOpenPortsOfRange ==
    /\ ReportedPorts \subseteq {p \in listening : InRange(p)}
    /\ mainpc = "done" =>
          /\ ReportedPorts = ConnectedPorts
          /\ ReportedPorts = {p \in listening : InRange(p)}

\* A finished run that reported a port, skipped a closed port of the range
\* and ignored a listening port outside the range.
C1_Witness ==
    /\ mainpc = "done"
    /\ Cardinality(ReportedPorts) >= 1
    /\ \E t \in DOMAIN tasks : tasks[t].port \notin listening
    /\ \E p \in listening : ~InRange(p)

\* C2: the sequence of ports printed is strictly ascending, hence free of
\* duplicates, whatever the order in which the values were received.
C2_ReportStrictlyAscending ==
    LET r == ReportedSeq
    IN  \A a, b \in 1..Len(r) : a < b => r[a] < r[b]

\* A finished run whose values arrived in descending order.
C2_Witness ==
    /\ mainpc = "done"
    /\ Len(ReportedSeq) >= 2
    /\ Len(pushed) >= 2
    /\ pushed[1] > pushed[2]

\* C3: with main and the probes scheduled fairly and every connection
\* attempt resolving, a collector that waits on the channel eventually sees
\* it exhausted and main finishes.
C3_CollectorTerminates == (mainpc = "for_recv") ~> (mainpc = "done")

\* Main finished after collecting port 65534 from one of several probes.
C3_Witness ==
    /\ mainpc = "done"
    /\ Len(tasks) >= 2
    /\ pushed = <<MAX - 1>>
    /\ ReportedSeq = <<MAX - 1>>

\* C4: once main has left the collector loop, every probe of the range has
\* been spawned and has run to completion, nothing is left in the channel,
\* and every value sent has been pushed to out.
C4_NoEarlyExit ==
    Reporting =>
        /\ Len(tasks) = RangeLen(opts[1].start_port, opts[1].end_port)
        /\ \A t \in DOMAIN tasks : tasks[t].pc = "done" /\ ~tasks[t].tx
        /\ chan = <<>>
        /\ \A t \in DOMAIN tasks :
              tasks[t].sent = Occurrences(tasks[t].port, pushed)

\* Main is about to sort after three probes, one of which failed and one
\* of which succeeded.
C4_Witness ==
    /\ mainpc = "sort"
    /\ Len(tasks) >= 3
    /\ \E t \in DOMAIN tasks : tasks[t].conn = "err"
    /\ \E t \in DOMAIN tasks : tasks[t].sent = 1

\* C5: for start < end, after the spawn loop there are exactly end - start
\* probes, exactly one for each port of the range; a probe sends at most one
\* value, and what it sends is its own port.
C5_OneProbePerPort ==
    /\ \A t \in DOMAIN tasks : tasks[t].sent <= 1
    /\ \A p \in ListenCandidates :
          Occurrences(p, pushed \o chan) =
              Cardinality({t \in DOMAIN tasks :
                              tasks[t].port = p /\ tasks[t].sent = 1})
    /\ (/\ mainpc \in {"drop_tx", "for_recv"} \cup {"println_sep", "sort",
                                                     "for_print", "done"}
        /\ opts[1].start_port < opts[1].end_port) =>
          /\ Len(tasks) = opts[1].end_port - opts[1].start_port
          /\ \A p \in opts[1].start_port..(opts[1].end_port - 1) :
                Cardinality({t \in DOMAIN tasks : tasks[t].port = p}) = 1

\* The spawn loop is over for a range of three ports and a probe has
\* sent its value.
C5_Witness ==
    /\ mainpc = "for_recv"
    /\ Len(tasks) >= 3
    /\ \E t \in DOMAIN tasks : tasks[t].sent = 1

\* Sum of the markers the tasks have written.
MarkersWritten == Cardinality({t \in DOMAIN tasks : tasks[t].wrote = 1})

HasMarker(l) == \E j \in 1..Len(l) : l[j] = "."

\* C6: what a successful probe writes is the single character "." with no
\* newline after it, and it has reached the descriptor before the probe
\* goes on to send: until main prints, standard output holds nothing but
\* "." characters, one per probe past its flush.
C6_MarkerIsBareDot ==
    ~Reporting =>
        /\ \A j \in 1..Len(stdout \o stdoutBuf) : (stdout \o stdoutBuf)[j] = "."
        /\ Occurrences(".", stdout) >=
              Cardinality({t \in DOMAIN tasks :
                              tasks[t].pc \in {"send", "exit", "done"}
                              /\ tasks[t].wrote = 1})

\* C7: on standard output every line holding a marker comes before the
\* blank separator line and every "<port> is open" line comes after it; a
\* finished run has printed the separator.
C7_MarkersBeforeSeparatorBeforeReport ==
    LET ls == StdoutLines
    IN  /\ \A a, b \in 1..Len(ls) :
              (HasMarker(ls[a]) /\ ls[b] = <<>>) => a < b
        /\ \A a, b \in 1..Len(ls) :
              (IsOpenLine(ls[a]) /\ ls[b] = <<>>) => b < a
        /\ mainpc = "done" => \E b \in 1..Len(ls) : ls[b] = <<>>

\* A finished run with two markers and two report lines.
C7_Witness ==
    /\ mainpc = "done"
    /\ Cardinality({a \in 1..Len(StdoutLines) : HasMarker(StdoutLines[a])}) >= 2
    /\ Len(ReportedSeq) >= 2

\* C8: a probe writes at most one marker and has written it when it sends;
\* the markers on standard output are those the probes wrote, and at the
\* end of a run there are as many markers as "<port> is open" lines.
C8_OneMarkerPerOpenPort ==
    /\ \A t \in DOMAIN tasks :
          /\ tasks[t].wrote <= 1
          /\ tasks[t].sent >= 1 => tasks[t].wrote = 1
          /\ tasks[t].wrote = 1 => tasks[t].conn = "ok"
    /\ MarkerCount = MarkersWritten
    /\ mainpc = "done" => MarkerCount = Len(ReportedSeq)

\* A finished run over three ports, two of them open and one closed.
C8_Witness ==
    /\ mainpc = "done"
    /\ Len(tasks) >= 3
    /\ MarkerCount >= 2
    /\ \E t \in DOMAIN tasks : tasks[t].wrote = 0

\* C9: with start = end accepted, no probe is spawned, no marker and no
\* report line is written, the channel is exhausted as soon as main has
\* dropped its sender, and the whole output of the run is the separator.
C9_EmptyRangeOnlySeparator ==
    (opts # <<>> /\ opts[1].start_port = opts[1].end_port) =>
        /\ tasks = <<>>
        /\ MarkerCount = 0
        /\ Len(ReportedSeq) = 0
        /\ mainpc = "for_recv" => (senders = 0 /\ chan = <<>>)
        /\ stdout \in {<<>>, SeparatorText}
        /\ mainpc = "done" => stdout = <<NL>>

\* A finished run over an empty range whose start port is listening.
C9_Witness ==
    /\ mainpc = "done"
    /\ opts[1].start_port = opts[1].end_port
    /\ opts[1].start_port \in listening

\* C10: with --start 0 main never gets past argument parsing: no channel,
\* no probe, no connection attempt, nothing on standard output.
C10_StartZeroRejected ==
    argv.start = <<0>> =>
        /\ mainpc \in {"args", "rejected"}
        /\ opts = <<>>
        /\ ~rxAlive /\ ~mainTx /\ senders = 0
        /\ tasks = <<>>
        /\ stdout = <<>> /\ stdoutBuf = <<>>

\* The run with --start 0 has been rejected although ports are listening.
C10_Witness ==
    /\ argv.start = <<0>>
    /\ mainpc = "rejected"
    /\ listening # {}

\* The ascending sequence of the elements of a finite set of numbers.
RECURSIVE AscendingSeq(_)
AscendingSeq(S) ==
    IF S = {} THEN <<>>
    ELSE LET m == CHOOSE x \in S : \A y \in S : x <= y
         IN  <<m>> \o AscendingSeq(S \ {m})

Finished(t) == tasks[t].pc \in {"done", "panicked"}

C12_MaxPortNeverScanned ==
    /\ \A t \in DOMAIN tasks : tasks[t].port # MAX
    /\ MAX \notin ConnectedPorts
    /\ MAX \notin ReportedPorts

\* A finished run up to the default end, with 65535 listening, that
\* reported 65534 only.
C12_Witness ==
    /\ mainpc = "done"
    /\ argv.end = <<>>
    /\ MAX \in listening
    /\ Len(tasks) >= 2
    /\ ReportedSeq = <<MAX - 1>>

\* C13: the sequence a finished run has reported is determined by the
\* command line and the set of listening ports alone: it is the ascending
\* sequence of the listening ports of the range, whatever the interleaving.
C13_ReportDeterminedByInputs ==
    mainpc = "done" =>
        LET a == arguments_run(argv)
        IN  ReportedSeq =
                AscendingSeq({p \in listening :
                                 a.start_port <= p /\ p < a.end_port})

\* A finished run that received port 2 before port 1.
C13_Witness ==
    /\ mainpc = "done"
    /\ pushed = <<2, 1>>
    /\ ReportedSeq = <<1, 2>>

\* C14: a probe whose attempt failed has sent nothing, written nothing, has
\* not panicked and holds no sender once it is over; and a step such a probe
\* takes leaves the channel, the collector's vector, standard output, main
\* and every other probe as they were.
C14_FailedProbeIsSilent ==
    [][/\ \A t \in DOMAIN tasks' :
             tasks'[t].conn = "err" =>
                 /\ tasks'[t].sent = 0
                 /\ tasks'[t].wrote = 0
                 /\ tasks'[t].pc \in {"exit", "done"}
                 /\ tasks'[t].pc = "done" => ~tasks'[t].tx
       /\ \A t \in DOMAIN tasks :
             (tasks'[t].conn = "err" /\ tasks'[t] # tasks[t]) =>
                 /\ chan' = chan
                 /\ out' = out
                 /\ pushed' = pushed
                 /\ stdout' = stdout
                 /\ stdoutBuf' = stdoutBuf
                 /\ mainpc' = mainpc
                 /\ \A u \in DOMAIN tasks \ {t} : tasks'[u] = tasks[u]]_vars

\* A finished run in which one probe failed and another one was reported.
C14_Witness ==
    /\ mainpc = "done"
    /\ \E t \in DOMAIN tasks : tasks[t].conn = "err" /\ tasks[t].pc = "done"
    /\ \E t \in DOMAIN tasks : tasks[t].sent = 1
    /\ Len(ReportedSeq) >= 1

\* C15: a spawned probe whose port accepts the connection, with the receiver
\* alive, does not panic, sends its own port exactly once, and the task
\* awaited by its caller yields Ok.
C15_ProbeCompletesNormally ==
    \A t \in DOMAIN tasks :
        (rxAlive /\ tasks[t].conn = "ok") =>
            /\ tasks[t].pc # "panicked"
            /\ tasks[t].sent <= 1
            /\ tasks[t].pc \in {"exit", "done"} =>
                  (tasks[t].sent = 1 /\ chan = <<tasks[t].port>>)
            /\ mainpc \in {"test_passed", "test_failed"} =>
                  (mainpc = "test_passed" /\ tasks[t].pc = "done")

\* The caller has joined a task that connected and sent its port.
C15_Witness ==
    /\ mainpc = "test_passed"
    /\ rxAlive
    /\ tasks[1].conn = "ok"
    /\ chan = <<i>>

\* C16: the live senders are those of the unfinished probes, plus main's
\* while main holds it; main holds its sender from the creation of the
\* channel until every probe is spawned and not while it receives; so the
\* channel has no sender exactly when main has dropped its own and every
\* probe is over.
C16_SendersAreUnfinishedProbesPlusMain ==
    /\ senders = Cardinality({t \in DOMAIN tasks : tasks[t].tx})
                    + (IF mainTx THEN 1 ELSE 0)
    /\ \A t \in DOMAIN tasks : tasks[t].tx <=> ~Finished(t)
    /\ mainTx <=> mainpc \in {"for_spawn", "drop_tx"}
    /\ mainpc = "for_recv" =>
          Len(tasks) = RangeLen(opts[1].start_port, opts[1].end_port)
    /\ mainpc \notin {"args", "rejected", "channel"} =>
          (senders = 0 <=> (~mainTx /\ \A t \in DOMAIN tasks : Finished(t)))

\* Main is receiving while one of three probes is still running.
C16_Witness ==
    /\ mainpc = "for_recv"
    /\ senders = 1
    /\ Len(tasks) >= 3

\* C17: a probe that connected while the receiver of its channel is gone
\* sends nothing and does not run on past the send: it panics, after its
\* marker reached standard output, its sender is released by the unwinding,
\* and the caller that joins it gets an error.
C17_SendToDroppedReceiverPanics ==
    \A t \in DOMAIN tasks :
        (~rxAlive /\ tasks[t].conn = "ok") =>
            /\ tasks[t].sent = 0
            /\ chan = <<>>
            /\ tasks[t].pc \notin {"exit", "done"}
            /\ tasks[t].pc = "panicked" =>
                  /\ tasks[t].wrote = 1
                  /\ stdout = MarkerText
                  /\ ~tasks[t].tx
                  /\ senders = 0
            /\ mainpc \in {"test_passed", "test_failed"} =>
                  (mainpc = "test_failed" /\ tasks[t].pc = "panicked")

\* The caller has joined a task that panicked at its send.
C17_Witness ==
    /\ mainpc = "test_failed"
    /\ ~rxAlive
    /\ tasks[1].pc = "panicked"
    /\ stdout = <<".", NL>>

\* C18: in a run of main no probe panics, and the receiver is alive for as
\* long as any probe holds a sender: it is dropped only with no sender left.
C18_NoSendFailsInMain ==
    /\ \A t \in DOMAIN tasks :
          /\ tasks[t].pc # "panicked"
          /\ tasks[t].tx => rxAlive
    /\ Reporting => (senders = 0 /\ ~rxAlive)

\* A probe is about to send while main waits after an earlier value.
C18_Witness ==
    /\ mainpc = "for_recv"
    /\ chan = <<>>
    /\ Len(pushed) >= 1
    /\ \E t \in DOMAIN tasks : tasks[t].pc = "send"

\* C19: whatever the earlier probes are doing, main can spawn the probe of
\* the next port of the range.
C19_SpawnNeverWaits ==
    (mainpc = "for_spawn" /\ i < opts[1].end_port) => ENABLED SpawnProbe

\* Every probe of a three-port range is spawned and all three connection
\* attempts are in flight together.
C19_Witness ==
    /\ Len(tasks) >= 3
    /\ Len(tasks) = RangeLen(opts[1].start_port, opts[1].end_port)
    /\ \A t \in DOMAIN tasks : tasks[t].pc = "connecting"

\* C20: while some probe is unfinished, some probe can take a step, in
\* particular when main is blocked in its receive; worker threads are held
\* by running probes only, never by one that waits for its connection.
C20_BlockedCollectorNeverStarvesProbes ==
    /\ (\E t \in DOMAIN tasks : ~Finished(t)) => ENABLED ProbeStep
    /\ Cardinality(polling) <= workers
    /\ \A t \in polling :
          t \in DOMAIN tasks
          /\ tasks[t].pc \in {"println", "flush", "send", "exit"}

\* With one worker thread, main waits on the empty channel while one probe
\* waits for its connection and another is running.
C20_Witness ==
    /\ mainpc = "for_recv"
    /\ chan = <<>>
    /\ workers = 1
    /\ \E t \in DOMAIN tasks : tasks[t].pc = "connecting"
    /\ \E t \in DOMAIN tasks : tasks[t].pc = "println"

====
